---- MODULE Spec2Model ----
(***************************************************************************)
(* Storage core of the TaranisCore ECS runtime:                            *)
(*   SparseSet        src/src/core/utils/SparseSet.ts                      *)
(*   EntitySparseSet  src/unnamed/part_009                                 *)
(*   ECS              src/src/core/ECS.ts                                  *)
(* JavaScript arrays are sequences (index i of the code is position i+1),  *)
(* typed arrays are functions over 0..length-1.                            *)
(***************************************************************************)
EXTENDS Integers, Sequences, FiniteSets, TLC

\* ------------------------------------------------------------------ bounds
\* capacity handed to the SparseSet constructor in the stand-alone store
SetCap == 3
\* component values (numbers, as in the SparseSet<number> of the tests)
MaxValue == 2
Values == 1..MaxValue
\* capacity handed to the EntitySparseSet constructor
EntCap == 3
\* number of bits of the entity type masks handed to the calls
MaskBits == 2
Masks == 0..(2 ^ MaskBits - 1)
\* capacity handed to the EntitySparseSet constructor where the mask calls are explored
MaskCap == 2
\* largest maxEntities handed to the ECS constructor
MaxEntities == 3
\* number of calls made on one ECS
MaxCalls == 5
\* number of calls made on the stand-alone SparseSet
SetCalls == 8

\* --------------------------------------------------- JavaScript primitives
\* the value null, as stored by `fill(null)` and `= null as unknown as T`
NULL == -3
\* the value undefined (read past the end of an array, absent result)
UNDEF == -2
\* the sentinel -1 of sparse and keys
ABSENT == -1

\* a[i] of a JavaScript array: undefined outside 0..length-1
ArrGet(a, i) == IF i >= 0 /\ i < Len(a) THEN a[i + 1] ELSE UNDEF

\* a[i] = v of a JavaScript array: a write at or past length grows the
\* array (the slots in between read undefined); a write at a negative
\* index creates a plain property and leaves the elements alone
ArrSet(a, i, v) ==
    IF i < 0 THEN a
    ELSE IF i < Len(a) THEN [a EXCEPT ![i + 1] = v]
    ELSE a \o [j \in 1..(i - Len(a)) |-> UNDEF] \o <<v>>

\* t[i] of a typed array: undefined outside 0..length-1
TaGet(t, i) == IF i \in DOMAIN t THEN t[i] ELSE UNDEF

\* t[i] = v of a typed array: ignored outside 0..length-1 (and a write
\* at the key `undefined` creates a plain property)
TaSet(t, i, v) == IF i \in DOMAIN t THEN [t EXCEPT ![i] = v] ELSE t

\* the elements of an array
Range(q) == {q[i] : i \in 1..Len(q)}

\* freeList.pop()
Last(s) == s[Len(s)]
Front(s) == SubSeq(s, 1, Len(s) - 1)

\* ---------------------------------------------------------------- SparseSet
\* new SparseSet(maxEntities)
NewSparseSet(n) ==
    [sparse    |-> [i \in 0..(n - 1) |-> ABSENT],
     dense     |-> [i \in 1..n |-> NULL],
     keys      |-> [i \in 1..n |-> ABSENT],
     freeList  |-> << >>,
     itemCount |-> 0]

\* removeInDense(denseIndex)
removeInDense(s, denseIndex) ==
    LET lastDenseIndex == s.itemCount
        fl == Append(s.freeList, denseIndex)
        moveLast == denseIndex # lastDenseIndex
        dense1 == IF moveLast
                  THEN ArrSet(s.dense, denseIndex, ArrGet(s.dense, lastDenseIndex))
                  ELSE s.dense
        keys1 == IF moveLast
                 THEN ArrSet(s.keys, denseIndex, ArrGet(s.keys, lastDenseIndex))
                 ELSE s.keys
        movedEntityId == ArrGet(keys1, denseIndex)
        sparse1 == IF moveLast
                   THEN TaSet(s.sparse, movedEntityId, denseIndex)
                   ELSE s.sparse
    IN [s EXCEPT !.freeList = fl,
                 !.dense = ArrSet(dense1, lastDenseIndex, NULL),
                 !.keys = ArrSet(keys1, lastDenseIndex, ABSENT),
                 !.sparse = sparse1]

\* removeItem without the test that the key holds a slot
removeItem_NoPresenceTest(s, entityId) ==
    IF entityId < 0 \/ entityId >= Cardinality(DOMAIN s.sparse)
    THEN s
    ELSE LET s1 == removeInDense(s, s.sparse[entityId])
         IN [s1 EXCEPT !.sparse = TaSet(s1.sparse, entityId, ABSENT),
                       !.itemCount = s1.itemCount - 1]

\* removeItem(entityId)
removeItem(s, entityId) ==
    IF entityId < 0 \/ entityId >= Cardinality(DOMAIN s.sparse)
          \/ s.sparse[entityId] = ABSENT
    THEN s
    ELSE LET s1 == removeInDense(s, s.sparse[entityId])
         IN [s1 EXCEPT !.sparse = TaSet(s1.sparse, entityId, ABSENT),
                       !.itemCount = s1.itemCount - 1]

\* addItem that removes the prior value before it looks at the replace flag
addItem_RemoveFirst(s, entityId, value, replace) ==
    IF entityId < 0 \/ entityId >= Cardinality(DOMAIN s.sparse)
    THEN [s |-> s, err |-> "InvalidID", ret |-> UNDEF]
    ELSE
      LET s1 == removeItem(s, entityId)
          usesFree == Len(s1.freeList) > 0
          denseIndex == IF usesFree THEN Last(s1.freeList) ELSE s1.itemCount
          s2 == IF usesFree THEN [s1 EXCEPT !.freeList = Front(s1.freeList)]
                ELSE s1
      IN IF ~usesFree /\ denseIndex >= Len(s1.dense)
         THEN [s |-> s1, err |-> "Full", ret |-> UNDEF]
         ELSE [s |-> [s2 EXCEPT
                        !.dense = ArrSet(s2.dense, denseIndex, value),
                        !.keys = ArrSet(s2.keys, denseIndex, entityId),
                        !.sparse = TaSet(s2.sparse, entityId, denseIndex),
                        !.itemCount = s2.itemCount + 1],
               err |-> "none", ret |-> denseIndex]

\* addItem whose range test lets the capacity itself through
addItem_OffByOne(s, entityId, value, replace) ==
    IF entityId < 0 \/ entityId > Cardinality(DOMAIN s.sparse)
    THEN [s |-> s, err |-> "InvalidID", ret |-> UNDEF]
    ELSE IF TaGet(s.sparse, entityId) # ABSENT /\ ~replace
    THEN [s |-> s, err |-> "AlreadyExists", ret |-> UNDEF]
    ELSE
      LET s1 == IF replace /\ TaGet(s.sparse, entityId) # ABSENT
                THEN removeItem(s, entityId) ELSE s
          usesFree == Len(s1.freeList) > 0
          denseIndex == IF usesFree THEN Last(s1.freeList) ELSE s1.itemCount
          s2 == IF usesFree THEN [s1 EXCEPT !.freeList = Front(s1.freeList)]
                ELSE s1
      IN IF ~usesFree /\ denseIndex >= Len(s1.dense)
         THEN [s |-> s1, err |-> "Full", ret |-> UNDEF]
         ELSE [s |-> [s2 EXCEPT
                        !.dense = ArrSet(s2.dense, denseIndex, value),
                        !.keys = ArrSet(s2.keys, denseIndex, entityId),
                        !.sparse = TaSet(s2.sparse, entityId, denseIndex),
                        !.itemCount = s2.itemCount + 1],
               err |-> "none", ret |-> denseIndex]

\* addItem that takes the oldest free slot (shift for pop)
addItem_Fifo(s, entityId, value, replace) ==
    IF entityId < 0 \/ entityId >= Cardinality(DOMAIN s.sparse)
    THEN [s |-> s, err |-> "InvalidID", ret |-> UNDEF]
    ELSE IF s.sparse[entityId] # ABSENT /\ ~replace
    THEN [s |-> s, err |-> "AlreadyExists", ret |-> UNDEF]
    ELSE
      LET s1 == IF replace /\ s.sparse[entityId] # ABSENT
                THEN removeItem(s, entityId) ELSE s
          usesFree == Len(s1.freeList) > 0
          denseIndex == IF usesFree THEN Head(s1.freeList) ELSE s1.itemCount
          s2 == IF usesFree THEN [s1 EXCEPT !.freeList = Tail(s1.freeList)]
                ELSE s1
      IN IF ~usesFree /\ denseIndex >= Len(s1.dense)
         THEN [s |-> s1, err |-> "Full", ret |-> UNDEF]
         ELSE [s |-> [s2 EXCEPT
                        !.dense = ArrSet(s2.dense, denseIndex, value),
                        !.keys = ArrSet(s2.keys, denseIndex, entityId),
                        !.sparse = TaSet(s2.sparse, entityId, denseIndex),
                        !.itemCount = s2.itemCount + 1],
               err |-> "none", ret |-> denseIndex]

\* addItem(entityId, value, replace): the store afterwards, the error
\* thrown ("none" when it returns) and the dense index returned
addItem(s, entityId, value, replace) ==
    IF entityId < 0 \/ entityId >= Cardinality(DOMAIN s.sparse)
    THEN [s |-> s, err |-> "InvalidID", ret |-> UNDEF]
    ELSE IF s.sparse[entityId] # ABSENT /\ ~replace
    THEN [s |-> s, err |-> "AlreadyExists", ret |-> UNDEF]
    ELSE
      LET s1 == IF replace /\ s.sparse[entityId] # ABSENT
                THEN removeItem(s, entityId) ELSE s
          usesFree == Len(s1.freeList) > 0
          denseIndex == IF usesFree THEN Last(s1.freeList) ELSE s1.itemCount
          s2 == IF usesFree THEN [s1 EXCEPT !.freeList = Front(s1.freeList)]
                ELSE s1
      IN IF ~usesFree /\ denseIndex >= Len(s1.dense)
         THEN [s |-> s1, err |-> "Full", ret |-> UNDEF]
         ELSE [s |-> [s2 EXCEPT
                        !.dense = ArrSet(s2.dense, denseIndex, value),
                        !.keys = ArrSet(s2.keys, denseIndex, entityId),
                        !.sparse = TaSet(s2.sparse, entityId, denseIndex),
                        !.itemCount = s2.itemCount + 1],
               err |-> "none", ret |-> denseIndex]

\* hasItem(itemId): error thrown and the boolean returned
hasItem(s, itemId) ==
    IF itemId < 0 \/ itemId >= Cardinality(DOMAIN s.sparse)
    THEN [err |-> "InvalidID", ret |-> FALSE]
    ELSE [err |-> "none", ret |-> s.sparse[itemId] # ABSENT]

\* getItem(componentId)
getItem(s, componentId) ==
    LET denseIndex == TaGet(s.sparse, componentId)
    IN IF denseIndex # ABSENT THEN ArrGet(s.dense, denseIndex) ELSE UNDEF

\* getAllItems(): the entries {itemId, value} of the slots whose key is
\* not -1, in the order of the keys array
getAllItems(s) ==
    SelectSeq([j \in 1..Len(s.keys) |->
                   [itemId |-> s.keys[j], value |-> ArrGet(s.dense, j - 1)]],
              LAMBDA entry : entry.itemId # ABSENT)

\* clear()
clear(s) ==
    [sparse    |-> [i \in DOMAIN s.sparse |-> ABSENT],
     dense     |-> << >>,
     keys      |-> << >>,
     freeList  |-> << >>,
     itemCount |-> 0]

\* updateItem written as a replacing addItem
updateItem_ViaReplace(s, entityId, value) ==
    LET h == hasItem(s, entityId)
        r == addItem(s, entityId, value, TRUE)
    IN IF h.err # "none" THEN [s |-> s, err |-> h.err]
       ELSE [s |-> r.s, err |-> r.err]

\* updateItem(entityId, value)
updateItem(s, entityId, value) ==
    LET h == hasItem(s, entityId)
    IN IF h.err # "none" THEN [s |-> s, err |-> h.err]
       ELSE IF ~h.ret THEN [s |-> s, err |-> "NotExist"]
       ELSE [s |-> [s EXCEPT !.dense =
                       ArrSet(s.dense, s.sparse[entityId], value)],
             err |-> "none"]

\* ----------------------------------------------------------- bit operations
\* a & b on non-negative integers
RECURSIVE BitAnd(_, _)
BitAnd(a, b) ==
    IF a = 0 \/ b = 0 THEN 0
    ELSE (a % 2) * (b % 2) + 2 * BitAnd(a \div 2, b \div 2)

\* a | b on non-negative integers
BitOr(a, b) == a + b - BitAnd(a, b)

\* a & ~b on non-negative integers: the bits of a that are not in b
BitAndNot(a, b) == a - BitAnd(a, b)

\* ---------------------------------------------------------- EntitySparseSet
\* EntityTypeMask.None
MaskNone == 0

\* new EntitySparseSet(maxEntities)
NewEntitySparseSet(n) ==
    [sparse      |-> [i \in 0..(n - 1) |-> ABSENT],
     keys        |-> [i \in 1..n |-> ABSENT],
     freeList    |-> << >>,
     bitSet      |-> [i \in 1..n |-> MaskNone],
     nextItemId  |-> 0,
     activeCount |-> 0]

\* isFull that forgets the free list
isFull_IgnoreFree(e) ==
    e.nextItemId >= Cardinality(DOMAIN e.sparse)

\* get isFull()
isFull(e) ==
    e.nextItemId >= Cardinality(DOMAIN e.sparse) /\ Len(e.freeList) = 0

\* hasEntity(entityId)
hasEntity(e, entityId) ==
    entityId >= 0 /\ entityId < Cardinality(DOMAIN e.sparse)
        /\ e.sparse[entityId] # ABSENT

\* createEntity that reads the free list without popping it
createEntity_KeepFree(e, mask) ==
    IF isFull(e) THEN [e |-> e, err |-> "Full", ret |-> UNDEF]
    ELSE
      LET reuse == Len(e.freeList) > 0
          entityId == IF reuse THEN Last(e.freeList) ELSE e.nextItemId
          denseIndex == e.activeCount
      IN [e |-> [e EXCEPT
                   !.nextItemId = IF reuse THEN e.nextItemId ELSE e.nextItemId + 1,
                   !.sparse = TaSet(e.sparse, entityId, denseIndex),
                   !.keys = ArrSet(e.keys, denseIndex, entityId),
                   !.bitSet = ArrSet(e.bitSet, entityId,
                                     IF mask = UNDEF THEN MaskNone ELSE mask),
                   !.activeCount = e.activeCount + 1],
          err |-> "none", ret |-> entityId]

\* createEntity that takes the oldest id of the free list (shift for pop)
createEntity_Fifo(e, mask) ==
    IF isFull(e) THEN [e |-> e, err |-> "Full", ret |-> UNDEF]
    ELSE
      LET reuse == Len(e.freeList) > 0
          entityId == IF reuse THEN Head(e.freeList) ELSE e.nextItemId
          denseIndex == e.activeCount
      IN [e |-> [e EXCEPT
                   !.freeList = IF reuse THEN Tail(e.freeList) ELSE e.freeList,
                   !.nextItemId = IF reuse THEN e.nextItemId ELSE e.nextItemId + 1,
                   !.sparse = TaSet(e.sparse, entityId, denseIndex),
                   !.keys = ArrSet(e.keys, denseIndex, entityId),
                   !.bitSet = ArrSet(e.bitSet, entityId,
                                     IF mask = UNDEF THEN MaskNone ELSE mask),
                   !.activeCount = e.activeCount + 1],
          err |-> "none", ret |-> entityId]

\* createEntity(mask?): mask is UNDEF when the argument is omitted
createEntity(e, mask) ==
    IF isFull(e) THEN [e |-> e, err |-> "Full", ret |-> UNDEF]
    ELSE
      LET reuse == Len(e.freeList) > 0
          entityId == IF reuse THEN Last(e.freeList) ELSE e.nextItemId
          denseIndex == e.activeCount
      IN [e |-> [e EXCEPT
                   !.freeList = IF reuse THEN Front(e.freeList) ELSE e.freeList,
                   !.nextItemId = IF reuse THEN e.nextItemId ELSE e.nextItemId + 1,
                   !.sparse = TaSet(e.sparse, entityId, denseIndex),
                   !.keys = ArrSet(e.keys, denseIndex, entityId),
                   !.bitSet = ArrSet(e.bitSet, entityId,
                                     IF mask = UNDEF THEN MaskNone ELSE mask),
                   !.activeCount = e.activeCount + 1],
          err |-> "none", ret |-> entityId]

\* getAllEntities()
getAllEntities(e) == SelectSeq(e.keys, LAMBDA key : key # ABSENT)

\* deleteEntity that leaves the mask of the deleted entity in bitSet
deleteEntity_KeepMask(e, entityId) ==
    IF entityId < 0 \/ entityId >= Cardinality(DOMAIN e.sparse)
          \/ e.sparse[entityId] = ABSENT
    THEN [e |-> e, err |-> "NotExist"]
    ELSE LET denseIndex == e.sparse[entityId]
         IN [e |-> [e EXCEPT
                      !.sparse = TaSet(e.sparse, entityId, ABSENT),
                      !.keys = ArrSet(e.keys, denseIndex, ABSENT),
                      !.freeList = Append(e.freeList, entityId),
                      !.activeCount = e.activeCount - 1],
             err |-> "none"]

\* deleteEntity(entityId)
deleteEntity(e, entityId) ==
    IF entityId < 0 \/ entityId >= Cardinality(DOMAIN e.sparse)
          \/ e.sparse[entityId] = ABSENT
    THEN [e |-> e, err |-> "NotExist"]
    ELSE LET denseIndex == e.sparse[entityId]
         IN [e |-> [e EXCEPT
                      !.sparse = TaSet(e.sparse, entityId, ABSENT),
                      !.bitSet = ArrSet(e.bitSet, entityId, MaskNone),
                      !.keys = ArrSet(e.keys, denseIndex, ABSENT),
                      !.freeList = Append(e.freeList, entityId),
                      !.activeCount = e.activeCount - 1],
             err |-> "none"]

\* addMaskToEntity that assigns the mask in place of or-ing it in
addMaskToEntity_Assign(e, entityId, mask) ==
    IF ~hasEntity(e, entityId) THEN [e |-> e, err |-> "NotExist"]
    ELSE [e |-> [e EXCEPT !.bitSet = ArrSet(e.bitSet, entityId, mask)],
          err |-> "none"]

\* addMaskToEntity(entityId, mask)
addMaskToEntity(e, entityId, mask) ==
    IF ~hasEntity(e, entityId) THEN [e |-> e, err |-> "NotExist"]
    ELSE [e |-> [e EXCEPT !.bitSet = ArrSet(e.bitSet, entityId,
                              BitOr(ArrGet(e.bitSet, entityId), mask))],
          err |-> "none"]

\* updateMask(entityId, mask)
updateMask(e, entityId, mask) ==
    IF ~hasEntity(e, entityId) THEN [e |-> e, err |-> "NotExist"]
    ELSE [e |-> [e EXCEPT !.bitSet = ArrSet(e.bitSet, entityId, mask)],
          err |-> "none"]

\* removeMaskFromEntity(entityId, mask)
removeMaskFromEntity(e, entityId, mask) ==
    IF ~hasEntity(e, entityId) THEN [e |-> e, err |-> "NotExist"]
    ELSE [e |-> [e EXCEPT !.bitSet = ArrSet(e.bitSet, entityId,
                              BitAndNot(ArrGet(e.bitSet, entityId), mask))],
          err |-> "none"]

\* getMask(entityId)
getMask(e, entityId) == ArrGet(e.bitSet, entityId)

\* the test of the loops of getAllByMask and getFirstByMaks at index i
maskTest(e, i, mask) == BitAnd(ArrGet(e.bitSet, i), mask) # 0

\* getAllByMask(mask)
getAllByMask(e, mask) ==
    SelectSeq([j \in 1..Len(e.bitSet) |-> j - 1],
              LAMBDA i : maskTest(e, i, mask))

\* getFirstByMaks(mask)
getFirstByMaks(e, mask) ==
    LET hits == getAllByMask(e, mask)
    IN IF Len(hits) > 0 THEN hits[1] ELSE NULL

\* ---------------------------------------------------------------------- ECS
\* the capacity of `new SparseSet()`, the store registerComponent creates.
\* The code's default is 1000 whatever the registry's maxEntities; it is
\* scaled to lie inside the range of registry sizes explored, so that
\* registries both within and beyond the default capacity occur.
DefaultCapacity == MaxEntities - 1

\* the family names (keys of GlobalFamilyType) and the component kinds
FamilyNames == {"Transform", "Core"}
\* TransformMask.Position and CoreMask.Renderable, both 1 << 0
Kinds == {1}

\* this.components = new Map(): the families in insertion order, the kinds
\* of each family in insertion order, and the store of each (family, kind)
NewComponents ==
    [fams  |-> << >>,
     kinds |-> [f \in FamilyNames |-> << >>],
     store |-> [fk \in FamilyNames \X Kinds |-> NewSparseSet(0)]]

\* this.components.has(family)
familyRegistered(c, f) == f \in Range(c.fams)

\* family.has(kind), for a registered family
kindRegistered(c, f, k) == k \in Range(c.kinds[f])

\* registerFamily that sets a new empty family map over a registered one
registerFamily_Overwrite(c, f) ==
    IF familyRegistered(c, f)
    THEN [c |-> [c EXCEPT !.kinds[f] = << >>], err |-> "none"]
    ELSE [c |-> [c EXCEPT !.fams = Append(c.fams, f)], err |-> "none"]

\* registerFamily(ComponentFamilyName)
registerFamily(c, f) ==
    IF familyRegistered(c, f) THEN [c |-> c, err |-> "FamilyAlreadyRegistered"]
    ELSE [c |-> [c EXCEPT !.fams = Append(c.fams, f)], err |-> "none"]

\* registerComponent(ComponentFamilyName, componentName)
registerComponent(c, f, k) ==
    IF ~familyRegistered(c, f) THEN [c |-> c, err |-> "FamilyNotRegistered"]
    ELSE IF kindRegistered(c, f, k)
    THEN [c |-> c, err |-> "ComponentAlreadyRegistered"]
    ELSE [c |-> [c EXCEPT !.kinds[f] = Append(c.kinds[f], k),
                          !.store[<<f, k>>] = NewSparseSet(DefaultCapacity)],
          err |-> "none"]

\* addComponent that throws when the family or the kind is missing
addComponent_NoAutoRegister(c, entityId, f, k, v) ==
    IF ~familyRegistered(c, f) THEN [c |-> c, err |-> "FamilyNotRegistered"]
    ELSE IF ~kindRegistered(c, f, k)
    THEN [c |-> c, err |-> "ComponentNotRegistered"]
    ELSE LET r == addItem(c.store[<<f, k>>], entityId, v, FALSE)
         IN [c |-> [c EXCEPT !.store[<<f, k>>] = r.s], err |-> r.err]

\* addComponent that hands replace = true to addItem
addComponent_Replace(c, entityId, f, k, v) ==
    LET c1 == IF familyRegistered(c, f) THEN c ELSE registerFamily(c, f).c
        c2 == IF kindRegistered(c1, f, k) THEN c1
              ELSE registerComponent(c1, f, k).c
        r == addItem(c2.store[<<f, k>>], entityId, v, TRUE)
    IN [c |-> [c2 EXCEPT !.store[<<f, k>>] = r.s], err |-> r.err]

\* addComponent(entityId, ComponentFamilyName, componentName, componentData)
addComponent(c, entityId, f, k, v) ==
    LET c1 == IF familyRegistered(c, f) THEN c ELSE registerFamily(c, f).c
        c2 == IF kindRegistered(c1, f, k) THEN c1
              ELSE registerComponent(c1, f, k).c
        r == addItem(c2.store[<<f, k>>], entityId, v, FALSE)
    IN [c |-> [c2 EXCEPT !.store[<<f, k>>] = r.s], err |-> r.err]

\* removeComponent that looks for the family and the kind before the entity
removeComponent_RegistrationFirst(e, c, entityId, f, k) ==
    IF ~familyRegistered(c, f) THEN [c |-> c, err |-> "FamilyNotRegistered"]
    ELSE IF ~kindRegistered(c, f, k)
    THEN [c |-> c, err |-> "ComponentNotRegistered"]
    ELSE IF ~hasEntity(e, entityId) THEN [c |-> c, err |-> "none"]
    ELSE [c |-> [c EXCEPT !.store[<<f, k>>] =
                     removeItem(c.store[<<f, k>>], entityId)],
          err |-> "none"]

\* removeComponent(entityId, ComponentFamilyName, componentMask)
removeComponent(e, c, entityId, f, k) ==
    IF ~hasEntity(e, entityId) THEN [c |-> c, err |-> "none"]
    ELSE IF ~familyRegistered(c, f) THEN [c |-> c, err |-> "FamilyNotRegistered"]
    ELSE IF ~kindRegistered(c, f, k)
    THEN [c |-> c, err |-> "ComponentNotRegistered"]
    ELSE [c |-> [c EXCEPT !.store[<<f, k>>] =
                     removeItem(c.store[<<f, k>>], entityId)],
          err |-> "none"]

\* getComponent that looks for the family and the kind before the entity
getComponent_RegistrationFirst(e, c, entityId, f, k) ==
    IF ~familyRegistered(c, f)
    THEN [err |-> "FamilyNotRegistered", ret |-> UNDEF]
    ELSE IF ~kindRegistered(c, f, k)
    THEN [err |-> "ComponentNotRegistered", ret |-> UNDEF]
    ELSE IF ~hasEntity(e, entityId) THEN [err |-> "none", ret |-> UNDEF]
    ELSE [err |-> "none", ret |-> getItem(c.store[<<f, k>>], entityId)]

\* getComponent(entityId, familyName, componentMask)
getComponent(e, c, entityId, f, k) ==
    IF ~hasEntity(e, entityId) THEN [err |-> "none", ret |-> UNDEF]
    ELSE IF ~familyRegistered(c, f)
    THEN [err |-> "FamilyNotRegistered", ret |-> UNDEF]
    ELSE IF ~kindRegistered(c, f, k)
    THEN [err |-> "ComponentNotRegistered", ret |-> UNDEF]
    ELSE [err |-> "none", ret |-> getItem(c.store[<<f, k>>], entityId)]

\* hasComponent(entityId, familyName, componentMask)
hasComponent(c, entityId, f, k) ==
    IF ~familyRegistered(c, f)
    THEN [err |-> "FamilyNotRegistered", ret |-> FALSE]
    ELSE IF ~kindRegistered(c, f, k)
    THEN [err |-> "ComponentNotRegistered", ret |-> FALSE]
    ELSE hasItem(c.store[<<f, k>>], entityId)

\* a visit that stops after the first family
storeOrder_FirstFamily(c, i) ==
    IF i > Len(c.fams) THEN << >>
    ELSE [j \in 1..Len(c.kinds[c.fams[i]]) |-> <<c.fams[i], c.kinds[c.fams[i]][j]>>]

\* the (family, kind) pairs in the order the two nested forEach of
\* removeAllComponentsFromEntity visit them
RECURSIVE storeOrder(_, _)
storeOrder(c, i) ==
    IF i > Len(c.fams) THEN << >>
    ELSE [j \in 1..Len(c.kinds[c.fams[i]]) |-> <<c.fams[i], c.kinds[c.fams[i]][j]>>]
             \o storeOrder(c, i + 1)

\* one round of the loop body of removeAllComponentsFromEntity, on the
\* store of fk: the hasItem test (which may throw) and the removeItem
stripStore(c, fk, entityId) ==
    LET h == hasItem(c.store[fk], entityId)
    IN IF h.err # "none" THEN [c |-> c, err |-> h.err]
       ELSE IF h.ret
       THEN [c |-> [c EXCEPT !.store[fk] = removeItem(c.store[fk], entityId)],
             err |-> "none"]
       ELSE [c |-> c, err |-> "none"]

\* ------------------------------------------------------------------- state
VARIABLES
    set,       \* the stand-alone SparseSet<number>
    ref,       \* the partial map the calls made so far describe (key -> value, UNDEF when absent)
    sref,      \* what the calls made so far say about the dense slots: freed and not handed out again, ever handed out
    entities,  \* the EntitySparseSet
    eref,      \* what the calls made so far say about the ids: handed out, deleted and not reallocated, ever returned
    maxEntities, \* the maxEntities of the ECS
    systems,   \* the systems of the ECS, in list order
    log,       \* the calls the last traversal of the systems made, in order
    cached,    \* the draft EntitySparseSet that caches its mask queries
    now,       \* the time Date.now() returns, in milliseconds
    components,  \* the families, kinds and component stores of the ECS
    pc,        \* where the ECS is: "idle" between calls, "strip" and "delete" inside removeEntity
    todo,      \* the stores removeAllComponentsFromEntity has still to visit
    calls,     \* the number of calls made so far on the ECS or on the stand-alone store
    last       \* the call just made: its name, arguments, error and result

vars == <<set, ref, sref, entities, eref, maxEntities, systems, log, cached, now, components, pc, todo, calls, last>>

\* the state of the ECS outside its entity registry, for the stand-alone specifications
NoEcs ==
    /\ maxEntities = 0
    /\ systems = << >>
    /\ log = << >>
    /\ cached = << >>
    /\ now = 0
    /\ components = NewComponents
    /\ pc = "idle"
    /\ todo = << >>
    /\ calls = 0

ecsVars == <<maxEntities, systems, log, cached, now, components, pc, todo, calls>>

NoCall == [op |-> "init"]

\* no dense slot freed, none handed out
NoSlots == [free |-> << >>, used |-> {}]

\* the slot history after slot has been handed out: its latest entry in
\* the freed slots, if any, is taken
RECURSIVE DropLast(_, _)
DropLast(q, x) ==
    IF Len(q) = 0 THEN q
    ELSE IF Last(q) = x THEN Front(q)
    ELSE Append(DropLast(Front(q), x), Last(q))

AfterAdd(h, slot) ==
    [free |-> DropLast(h.free, slot), used |-> h.used \cup {slot}]

\* the slot history after removeItem took the key stored at slot out
AfterRemove(h, slot) == [h EXCEPT !.free = Append(h.free, slot)]

\* ------------------------------------------------- the stand-alone SparseSet
\* keys handed to the store, two of them out of range
SetKeys == (-1)..SetCap

InitSet ==
    /\ set = NewSparseSet(SetCap)
    /\ ref = [k \in 0..(SetCap - 1) |-> UNDEF]
    /\ sref = NoSlots
    /\ entities = NewEntitySparseSet(0)
    /\ eref = [out |-> {}, free |-> << >>, ever |-> {}]
    /\ NoEcs
    /\ last = NoCall

\* this.sparse[k] !== -1 for a key in range: the key holds a slot
Present(s, k) == k \in DOMAIN s.sparse /\ s.sparse[k] # ABSENT

\* one more call on the store
SetCall ==
    /\ calls < SetCalls
    /\ calls' = calls + 1
    /\ UNCHANGED <<entities, eref, maxEntities, systems, log, cached, now, components, pc, todo>>

AddItem(k, v, rep) ==
    LET r == addItem(set, k, v, rep)
        was == Present(set, k)
        h1 == IF was /\ rep THEN AfterRemove(sref, set.sparse[k]) ELSE sref
    IN /\ SetCall
       /\ set' = r.s
       /\ ref' = IF r.err = "none" THEN [ref EXCEPT ![k] = v] ELSE ref
       /\ sref' = IF r.err = "none" THEN AfterAdd(h1, r.ret) ELSE sref
       /\ last' = [op |-> "addItem", key |-> k, err |-> r.err, was |-> was]

UpdateItem(k, v) ==
    LET r == updateItem(set, k, v)
    IN /\ SetCall
       /\ set' = r.s
       /\ ref' = IF r.err = "none" THEN [ref EXCEPT ![k] = v] ELSE ref
       /\ last' = [op |-> "updateItem", key |-> k, err |-> r.err]
       /\ UNCHANGED sref

RemoveItem(k) ==
    /\ SetCall
    /\ set' = removeItem(set, k)
    /\ ref' = IF k \in DOMAIN ref THEN [ref EXCEPT ![k] = UNDEF] ELSE ref
    /\ sref' = IF Present(set, k) THEN AfterRemove(sref, set.sparse[k]) ELSE sref
    /\ last' = [op |-> "removeItem", key |-> k, err |-> "none",
                was |-> Present(set, k)]

NextSet ==
    \/ \E k \in SetKeys, v \in Values, rep \in BOOLEAN : AddItem(k, v, rep)
    \/ \E k \in SetKeys, v \in Values : UpdateItem(k, v)
    \/ \E k \in SetKeys : RemoveItem(k)

SpecSet == InitSet /\ [][NextSet]_vars

\* the stand-alone store with clear() among the calls
Clear ==
    /\ SetCall
    /\ set' = clear(set)
    /\ ref' = [k \in DOMAIN ref |-> UNDEF]
    /\ sref' = NoSlots
    /\ last' = [op |-> "clear", key |-> UNDEF, err |-> "none"]

NextSetClear ==
    \/ NextSet
    \/ Clear

SpecSetClear == InitSet /\ [][NextSetClear]_vars

\* ------------------------------------------- the stand-alone EntitySparseSet
\* ids handed to the calls, two of them out of range
EntIds == (-1)..EntCap

\* the ids for which hasEntity is true
LiveIds(e) == {id \in DOMAIN e.sparse : hasEntity(e, id)}

\* the history of the ids after a successful createEntity returned id
AfterCreate(h, id) ==
    [out  |-> h.out \cup {id},
     free |-> SelectSeq(h.free, LAMBDA x : x # id),
     ever |-> h.ever \cup {id}]

\* the history of the ids after a successful deleteEntity(id)
AfterDelete(h, id) ==
    [h EXCEPT !.out = h.out \ {id}, !.free = Append(h.free, id)]

InitEnt ==
    /\ entities = NewEntitySparseSet(EntCap)
    /\ eref = [out |-> {}, free |-> << >>, ever |-> {}]
    /\ set = NewSparseSet(0)
    /\ ref = << >>
    /\ sref = NoSlots
    /\ NoEcs
    /\ last = NoCall

CreateEntity(mask) ==
    LET r == createEntity(entities, mask)
    IN /\ entities' = r.e
       /\ eref' = IF r.err = "none" THEN AfterCreate(eref, r.ret) ELSE eref
       /\ last' = [op |-> "createEntity", mask |-> mask, err |-> r.err,
                   ret |-> r.ret]
       /\ UNCHANGED <<set, ref, sref, ecsVars>>

DeleteEntity(id) ==
    LET r == deleteEntity(entities, id)
    IN /\ entities' = r.e
       /\ eref' = IF r.err = "none" THEN AfterDelete(eref, id) ELSE eref
       /\ last' = [op |-> "deleteEntity", id |-> id, err |-> r.err]
       /\ UNCHANGED <<set, ref, sref, ecsVars>>

AddMaskToEntity(id, mask) ==
    LET r == addMaskToEntity(entities, id, mask)
    IN /\ entities' = r.e
       /\ last' = [op |-> "addMaskToEntity", id |-> id, mask |-> mask,
                   err |-> r.err]
       /\ UNCHANGED <<set, ref, sref, eref, ecsVars>>

RemoveMaskFromEntity(id, mask) ==
    LET r == removeMaskFromEntity(entities, id, mask)
    IN /\ entities' = r.e
       /\ last' = [op |-> "removeMaskFromEntity", id |-> id, mask |-> mask,
                   err |-> r.err]
       /\ UNCHANGED <<set, ref, sref, eref, ecsVars>>

UpdateMask(id, mask) ==
    LET r == updateMask(entities, id, mask)
    IN /\ entities' = r.e
       /\ last' = [op |-> "updateMask", id |-> id, mask |-> mask,
                   err |-> r.err]
       /\ UNCHANGED <<set, ref, sref, eref, ecsVars>>

NextEnt ==
    \/ \E mask \in Masks \cup {UNDEF} : CreateEntity(mask)
    \/ \E id \in EntIds : DeleteEntity(id)

SpecEnt == InitEnt /\ [][NextEnt]_vars

\* ids handed to the calls where the mask calls are explored
MaskIds == (-1)..MaskCap

InitEntMask ==
    /\ entities = NewEntitySparseSet(MaskCap)
    /\ eref = [out |-> {}, free |-> << >>, ever |-> {}]
    /\ set = NewSparseSet(0)
    /\ ref = << >>
    /\ sref = NoSlots
    /\ NoEcs
    /\ last = NoCall

NextEntMask ==
    \/ \E mask \in Masks \cup {UNDEF} : CreateEntity(mask)
    \/ \E id \in MaskIds : DeleteEntity(id)
    \/ \E id \in MaskIds, mask \in Masks : AddMaskToEntity(id, mask)
    \/ \E id \in MaskIds, mask \in Masks : RemoveMaskFromEntity(id, mask)
    \/ \E id \in MaskIds, mask \in Masks : UpdateMask(id, mask)

SpecEntMask == InitEntMask /\ [][NextEntMask]_vars

\* ------------------------------------------------------------------ the ECS
\* entity ids handed to the calls, some never created or out of range
EcsIds == (-1)..MaxEntities

\* new ECS(maxEntities)
InitEcs ==
    /\ maxEntities \in 1..MaxEntities
    /\ entities = NewEntitySparseSet(maxEntities)
    /\ components = NewComponents
    /\ systems = << >>
    /\ log = << >>
    /\ cached = << >>
    /\ now = 0
    /\ pc = "idle"
    /\ todo = << >>
    /\ calls = 0
    /\ eref = [out |-> {}, free |-> << >>, ever |-> {}]
    /\ set = NewSparseSet(0)
    /\ ref = << >>
    /\ sref = NoSlots
    /\ last = NoCall

\* the store of (f, k) holds an entry for the key id
Holds(c, fk, id) ==
    /\ fk[1] \in Range(c.fams)
    /\ fk[2] \in Range(c.kinds[fk[1]])
    /\ id \in DOMAIN c.store[fk].sparse
    /\ c.store[fk].sparse[id] # ABSENT

\* a call can be made: the ECS is between two calls
CanCall ==
    /\ pc = "idle"
    /\ calls < MaxCalls
    /\ calls' = calls + 1

\* ECS.createEntity(mask?)
EcsCreateEntity(mask) ==
    /\ CanCall
    /\ LET r == createEntity(entities, mask)
       IN /\ entities' = r.e
          /\ last' = [op |-> "createEntity", mask |-> mask, err |-> r.err,
                      ret |-> r.ret]
    /\ UNCHANGED <<set, ref, sref, eref, maxEntities, systems, log, cached, now, components, pc, todo>>

\* removeEntity that deletes the entity before it strips its components
EcsRemoveEntity_DeleteFirst(id) ==
    /\ CanCall
    /\ IF ~hasEntity(entities, id)
       THEN /\ last' = [op |-> "removeEntity", id |-> id, err |-> "none",
                        wasLive |-> FALSE, ncomp |-> 0]
            /\ UNCHANGED <<pc, todo, entities>>
       ELSE /\ last' = [op |-> "removeEntity", id |-> id, err |-> "running",
                        wasLive |-> TRUE,
                        ncomp |-> Cardinality({fk \in FamilyNames \X Kinds :
                                                 Holds(components, fk, id)})]
            /\ entities' = deleteEntity(entities, id).e
            /\ pc' = "strip"
            /\ todo' = storeOrder(components, 1)
    /\ UNCHANGED <<set, ref, sref, eref, maxEntities, systems, log, cached, now, components>>

\* ECS.removeEntity(entityId), up to the call of removeAllComponentsFromEntity
EcsRemoveEntity(id) ==
    /\ CanCall
    /\ IF ~hasEntity(entities, id)
       THEN /\ last' = [op |-> "removeEntity", id |-> id, err |-> "none",
                        wasLive |-> FALSE, ncomp |-> 0]
            /\ UNCHANGED <<pc, todo>>
       ELSE /\ last' = [op |-> "removeEntity", id |-> id, err |-> "running",
                        wasLive |-> TRUE,
                        ncomp |-> Cardinality({fk \in FamilyNames \X Kinds :
                                                 Holds(components, fk, id)})]
            /\ pc' = "strip"
            /\ todo' = storeOrder(components, 1)
    /\ UNCHANGED <<set, ref, sref, entities, eref, maxEntities, systems, log, cached, now, components>>

\* removeAllComponentsFromEntity(entityId): one store per step; an error of
\* hasItem is logged by handleError and thrown again by removeEntity
EcsStrip ==
    /\ pc = "strip"
    /\ IF Len(todo) = 0
       THEN /\ pc' = "delete"
            /\ UNCHANGED <<components, todo, last>>
       ELSE LET r == stripStore(components, Head(todo), last.id)
            IN /\ components' = r.c
               /\ IF r.err = "none"
                  THEN /\ todo' = Tail(todo)
                       /\ UNCHANGED <<pc, last>>
                  ELSE /\ todo' = << >>
                       /\ pc' = "idle"
                       /\ last' = [last EXCEPT !.err = r.err]
    /\ UNCHANGED <<set, ref, sref, entities, eref, maxEntities, systems, log, cached, now, calls>>

\* this.entities.deleteEntity(entityId), the last statement of removeEntity
EcsDelete ==
    /\ pc = "delete"
    /\ LET r == deleteEntity(entities, last.id)
       IN /\ entities' = r.e
          /\ last' = [last EXCEPT !.err = r.err]
    /\ pc' = "idle"
    /\ UNCHANGED <<set, ref, sref, eref, maxEntities, systems, log, cached, now, components, todo, calls>>

RegisterFamily(f) ==
    /\ CanCall
    /\ LET r == registerFamily(components, f)
       IN /\ components' = r.c
          /\ last' = [op |-> "registerFamily", err |-> r.err]
    /\ UNCHANGED <<set, ref, sref, entities, eref, maxEntities, systems, log, cached, now, pc, todo>>

RegisterComponent(f, k) ==
    /\ CanCall
    /\ LET r == registerComponent(components, f, k)
       IN /\ components' = r.c
          /\ last' = [op |-> "registerComponent", err |-> r.err]
    /\ UNCHANGED <<set, ref, sref, entities, eref, maxEntities, systems, log, cached, now, pc, todo>>

AddComponent(id, f, k, v) ==
    /\ CanCall
    /\ LET r == addComponent(components, id, f, k, v)
       IN /\ components' = r.c
          /\ last' = [op |-> "addComponent", id |-> id, err |-> r.err]
    /\ UNCHANGED <<set, ref, sref, entities, eref, maxEntities, systems, log, cached, now, pc, todo>>

RemoveComponent(id, f, k) ==
    /\ CanCall
    /\ LET r == removeComponent(entities, components, id, f, k)
       IN /\ components' = r.c
          /\ last' = [op |-> "removeComponent", id |-> id, err |-> r.err]
    /\ UNCHANGED <<set, ref, sref, entities, eref, maxEntities, systems, log, cached, now, pc, todo>>

NextEcs ==
    \/ \E mask \in {UNDEF} : EcsCreateEntity(mask)
    \/ \E id \in EcsIds : EcsRemoveEntity(id)
    \/ EcsStrip
    \/ EcsDelete
    \/ \E f \in FamilyNames : RegisterFamily(f)
    \/ \E f \in FamilyNames, k \in Kinds : RegisterComponent(f, k)
    \/ \E id \in EcsIds, f \in FamilyNames, k \in Kinds, v \in Values :
           AddComponent(id, f, k, v)
    \/ \E id \in EcsIds, f \in FamilyNames, k \in Kinds :
           RemoveComponent(id, f, k)

SpecEcs == InitEcs /\ [][NextEcs]_vars

\* ------------------------------------------------------------------ claims
\* a sequence without repetition
NoDup(q) == \A i, j \in 1..Len(q) : i # j => q[i] # q[j]

\* C1: the store is a partial map: hasItem(k) is true exactly when k was
\* added and not removed since, and getItem(k) is the value most recently
\* stored for k by addItem or updateItem
C1_PartialMap ==
    \A k \in 0..(SetCap - 1) :
        /\ hasItem(set, k).ret = (ref[k] # UNDEF)
        /\ getItem(set, k) = ref[k]

\* C2: sparse and keys are inverse on the present keys, and no two present
\* keys share a dense slot
C2_InverseMapping ==
    \A k \in DOMAIN set.sparse :
        set.sparse[k] # ABSENT =>
            /\ ArrGet(set.keys, set.sparse[k]) = k
            /\ \A j \in DOMAIN set.sparse :
                   (j # k /\ set.sparse[j] # ABSENT) => set.sparse[j] # set.sparse[k]

\* the call just made is a createEntity that returned an id
Created == last.op = "createEntity" /\ last.err = "none"

\* C3: after removeEntity(e) on a live entity e that has components,
\* hasEntity(e) is false, no registered store holds e any more and
\* getComponent(e, family, kind) returns undefined without raising
C3_CoDeletion ==
    (pc = "idle" /\ last.op = "removeEntity" /\ last.wasLive /\ last.ncomp >= 1) =>
        /\ last.err = "none"
        /\ ~hasEntity(entities, last.id)
        /\ \A f \in Range(components.fams) :
             \A k \in Range(components.kinds[f]) :
               /\ ~Holds(components, <<f, k>>, last.id)
               /\ hasComponent(components, last.id, f, k) =
                      [err |-> "none", ret |-> FALSE]
               /\ getComponent(entities, components, last.id, f, k) =
                      [err |-> "none", ret |-> UNDEF]

\* an entity that had components in two families has been removed
C3_Witness ==
    /\ pc = "idle" /\ last.op = "removeEntity" /\ last.err = "none"
    /\ last.wasLive /\ last.ncomp >= 2
    /\ Len(components.fams) = 2

\* C4: removeEntity(e) strips e from every registered store before it
\* deletes e: e is alive all through the stripping, an entity never dies
\* while a store holds an entry for it in the course of removeEntity, and
\* when the stripping raises e is still alive
C4_StripBeforeDelete ==
    /\ [](pc \in {"strip", "delete"} => hasEntity(entities, last.id))
    /\ []((pc = "idle" /\ last.op = "removeEntity" /\ last.err # "none")
             => hasEntity(entities, last.id))
    /\ [][\A id \in EcsIds :
             (hasEntity(entities, id) /\ ~hasEntity(entities', id)) =>
                 \A fk \in FamilyNames \X Kinds :
                     ~Holds(components, fk, id) /\ ~Holds(components', fk, id)]_vars

\* the stripping of an entity with components in two stores is over and
\* its deletion is about to happen
C4_Witness ==
    /\ pc = "delete"
    /\ last.ncomp >= 2
    /\ hasEntity(entities, last.id)

\* C6: createEntity fails with 'SparseSet is full' exactly when the number
\* of live entities equals maxEntities, a failed create changes no state,
\* and the create that follows the removal of an entity succeeds and
\* returns the removed id
C6_FullExactly ==
    [][last'.op = "createEntity" =>
         /\ last'.err \in {"none", "Full"}
         /\ (last'.err = "Full") <=>
                (Cardinality(LiveIds(entities)) = maxEntities)
         /\ last'.err = "Full" =>
                (entities' = entities /\ components' = components)
         /\ (last.op = "removeEntity" /\ last.wasLive /\ last.err = "none") =>
                (last'.err = "none" /\ last'.ret = last.id)]_vars

\* a registry of two entities is full again after an id has been recycled
C6_Witness ==
    /\ maxEntities = 2
    /\ last.op = "createEntity" /\ last.err = "Full"
    /\ entities.nextItemId = 2
    /\ entities.keys # <<0, 1>>

\* C5: createEntity returns an integer of [0, maxEntities) that is not
\* alive when it is called and has not been handed out since its last
\* deleteEntity
C5_FreshId ==
    [][Created' =>
         /\ last'.ret \in 0..(Cardinality(DOMAIN entities.sparse) - 1)
         /\ ~hasEntity(entities, last'.ret)
         /\ last'.ret \notin eref.out]_vars

\* a recycled id is handed out while another entity is alive and another
\* id still waits in the free list
C5_Witness ==
    /\ Created
    /\ last.ret < entities.nextItemId - 1
    /\ Cardinality(eref.out) >= 2
    /\ Len(eref.free) >= 1

\* the smallest integer never returned by createEntity
SmallestFresh(h) ==
    CHOOSE n \in 0..Cardinality(h.ever) :
        n \notin h.ever /\ \A m \in 0..(n - 1) : m \in h.ever

\* C7: createEntity returns the most recently deleted id that has not been
\* reallocated when there is one, otherwise the smallest integer never
\* allocated before; the new entity's mask is the argument, 0 when omitted
C7_LifoThenFresh ==
    [][Created' =>
         /\ last'.ret = IF Len(eref.free) > 0 THEN Last(eref.free)
                        ELSE SmallestFresh(eref)
         /\ getMask(entities', last'.ret) =
                IF last'.mask = UNDEF THEN 0 ELSE last'.mask]_vars

\* the later of two deleted ids is handed out again, with a two-bit mask
C7_Witness ==
    /\ Created
    /\ Len(eref.free) = 1
    /\ eref.free[1] < last.ret
    /\ last.mask = 3
    /\ getMask(entities, last.ret) = 3

\* a fresh id is handed out without a mask argument
C7_WitnessFresh ==
    /\ Created
    /\ last.ret = 2
    /\ eref.free = << >>
    /\ last.mask = UNDEF

\* C8: getAllEntities() lists exactly the live ids, each once
C8_AllEntities ==
    /\ Range(getAllEntities(entities)) = LiveIds(entities)
    /\ NoDup(getAllEntities(entities))

\* C9: for every query mask m that has a bit set, getAllByMask(m) lists
\* exactly the live entities that have all the bits of m set
C9_AllByMask ==
    \A m \in Masks \ {0} :
        /\ Range(getAllByMask(entities, m)) =
               {id \in LiveIds(entities) : BitAnd(getMask(entities, id), m) = m}
        /\ NoDup(getAllByMask(entities, m))

\* the live entities that have all the bits of m, in dense order
DenseMatches(e, m) ==
    SelectSeq(e.keys, LAMBDA id :
        hasEntity(e, id) /\ BitAnd(getMask(e, id), m) = m)

\* C10: for every query mask m that has a bit set, getFirstByMaks(m) is
\* null when no live entity matches and otherwise the matching live entity
\* that comes first in the keys array
C10_FirstByMask ==
    \A m \in Masks \ {0} :
        getFirstByMaks(entities, m) =
            IF Len(DenseMatches(entities, m)) = 0 THEN NULL
            ELSE DenseMatches(entities, m)[1]

\* C11: deleteEntity(id) on an id that is not alive throws 'does not exist'
\* and changes nothing; on a live id it makes hasEntity(id) false, resets
\* getMask(id) to 0, takes exactly one off the active count and leaves the
\* liveness and the mask of every other id as they were.
C11_DeleteEntity ==
    [][last'.op = "deleteEntity" =>
        IF ~hasEntity(entities, last'.id)
        THEN last'.err = "NotExist" /\ entities' = entities
        ELSE /\ last'.err = "none"
             /\ ~hasEntity(entities', last'.id)
             /\ getMask(entities', last'.id) = 0
             /\ entities'.activeCount = entities.activeCount - 1
             /\ Cardinality(LiveIds(entities')) = Cardinality(LiveIds(entities)) - 1
             /\ \A o \in EntIds \ {last'.id} :
                    /\ hasEntity(entities', o) = hasEntity(entities, o)
                    /\ getMask(entities', o) = getMask(entities, o)]_vars

\* a live entity with a mask has just been deleted while another entity
\* with a mask stays alive
C11_Witness ==
    /\ last.op = "deleteEntity" /\ last.err = "none"
    /\ \E o \in LiveIds(entities) : getMask(entities, o) # 0
    /\ ~hasEntity(entities, last.id)
    /\ last.id \in eref.ever

\* bit b of the mask m
Bit(m, b) == (m \div (2 ^ b)) % 2 = 1

\* C12: on a live entity addMaskToEntity(id, bits) sets the mask to
\* old | bits and removeMaskFromEntity(id, bits) to old & ~bits, no other
\* mask changing; on a dead or out-of-range id both throw 'does not exist'
\* and leave every mask as it was.
C12_MaskOps ==
    [][last'.op \in {"addMaskToEntity", "removeMaskFromEntity"} =>
        IF hasEntity(entities, last'.id)
        THEN /\ last'.err = "none"
             /\ getMask(entities', last'.id) \in Masks
             /\ \A b \in 0..(MaskBits - 1) :
                    Bit(getMask(entities', last'.id), b) =
                      IF last'.op = "addMaskToEntity"
                      THEN Bit(getMask(entities, last'.id), b) \/ Bit(last'.mask, b)
                      ELSE Bit(getMask(entities, last'.id), b) /\ ~Bit(last'.mask, b)
             /\ \A o \in MaskIds \ {last'.id} :
                    getMask(entities', o) = getMask(entities, o)
             /\ LiveIds(entities') = LiveIds(entities)
        ELSE last'.err = "NotExist" /\ entities' = entities]_vars

\* bits have just been taken off a live entity that keeps one of its
\* bits, while another live entity has a mask
C12_Witness ==
    /\ last.op = "removeMaskFromEntity" /\ last.err = "none"
    /\ last.mask # 0
    /\ getMask(entities, last.id) # 0
    /\ \E o \in LiveIds(entities) \ {last.id} : getMask(entities, o) # 0

\* the smallest slot index never handed out
NextUnused(h) ==
    CHOOSE n \in 0..Cardinality(h.used) :
        n \notin h.used /\ \A m \in 0..(n - 1) : m \in h.used

\* the keys of the store's range
InRange == 0..(SetCap - 1)

\* C13: when the free list is not empty, addItem of an absent key returns
\* the slot freed by the latest removeItem whose slot has not been handed
\* out again; when it is empty, it returns the next slot never handed out.
C13_SlotReuse ==
    \A k \in InRange, v \in Values, rep \in BOOLEAN :
        LET r == addItem(set, k, v, rep)
        IN (~Present(set, k) /\ r.err = "none") =>
              IF Len(set.freeList) > 0
              THEN Len(sref.free) > 0 /\ r.ret = Last(sref.free)
              ELSE Len(sref.free) = 0 /\ r.ret = NextUnused(sref)

\* an absent key has just been added into a freed slot while an earlier
\* freed slot is still waiting
C13_Witness ==
    /\ last.op = "addItem" /\ last.err = "none" /\ ~last.was
    /\ Len(sref.free) >= 1
    /\ set.sparse[last.key] # Last(sref.free)
    /\ set.sparse[last.key] \in 0..(SetCap - 1)

\* an absent key has just been added into a slot never used before,
\* after a freed slot was taken again
C13_WitnessFresh ==
    /\ last.op = "addItem" /\ last.err = "none" /\ ~last.was
    /\ Len(sref.free) = 0
    /\ set.sparse[last.key] = Cardinality(sref.used) - 1
    /\ set.sparse[last.key] >= 1
    /\ calls >= 4

\* get size()
size(s) == s.itemCount

\* C14: removeItem(k) on a present key k takes exactly one off size,
\* makes getItem(k) undefined and hasItem(k) false, and leaves hasItem and
\* getItem of every other key as they were.
C14_RemoveFrame ==
    \A k \in InRange :
        Present(set, k) =>
            LET s2 == removeItem(set, k)
            IN /\ size(s2) = size(set) - 1
               /\ getItem(s2, k) = UNDEF
               /\ hasItem(s2, k) = [err |-> "none", ret |-> FALSE]
               /\ \A o \in InRange \ {k} :
                      /\ hasItem(s2, o) = hasItem(set, o)
                      /\ getItem(s2, o) = getItem(set, o)

\* C15: addItem(k, v) without replace on a present key throws 'already
\* exists' and leaves the store as it was: size, value of k, free list
\* and everything else.
C15_DuplicateKey ==
    \A k \in InRange, v \in Values :
        Present(set, k) =>
            addItem(set, k, v, FALSE) =
                [s |-> set, err |-> "AlreadyExists", ret |-> UNDEF]

\* addItem has just thrown 'already exists' on a store that has a free
\* slot waiting
C15_Witness ==
    /\ last.op = "addItem" /\ last.err = "AlreadyExists"
    /\ Present(set, last.key)
    /\ Len(set.freeList) > 0

\* C16: addItem with a key below 0 or at or above the capacity throws
\* 'Invalid ID', whatever the replace flag and the contents, and changes
\* nothing.
C16_OutOfRange ==
    \A k \in SetKeys \ InRange, v \in Values, rep \in BOOLEAN :
        addItem(set, k, v, rep) =
            [s |-> set, err |-> "InvalidID", ret |-> UNDEF]

\* addItem has just thrown 'Invalid ID' for the key equal to the capacity
\* on a store that holds keys and has a free slot
C16_Witness ==
    /\ last.op = "addItem" /\ last.err = "InvalidID"
    /\ last.key = SetCap
    /\ size(set) > 0
    /\ Len(set.freeList) > 0

C19_Replace ==
    \A k \in InRange, v2 \in Values :
        Present(set, k) =>
            LET r == addItem(set, k, v2, TRUE)
            IN /\ r.err = "none"
               /\ getItem(r.s, k) = v2
               /\ size(r.s) = size(set)
               /\ \A o \in InRange \ {k} :
                      /\ hasItem(r.s, o) = hasItem(set, o)
                      /\ getItem(r.s, o) = getItem(set, o)

\* C20: updateItem(k, v) on an absent key of the range throws 'does not
\* exist' and changes nothing; on a present key it overwrites the value
\* in the dense slot of k and leaves sparse, keys, the free list and size
\* as they are, getItem(k) being v afterwards.
C20_UpdateInPlace ==
    \A k \in InRange, v \in Values :
        LET r == updateItem(set, k, v)
        IN IF ~Present(set, k)
           THEN r = [s |-> set, err |-> "NotExist"]
           ELSE /\ r.err = "none"
                /\ r.s.sparse = set.sparse
                /\ r.s.keys = set.keys
                /\ r.s.freeList = set.freeList
                /\ size(r.s) = size(set)
                /\ getItem(r.s, k) = v
                /\ \A i \in 0..(Len(set.dense) - 1) :
                       i # set.sparse[k] => ArrGet(r.s.dense, i) = ArrGet(set.dense, i)
                /\ Len(r.s.dense) = Len(set.dense)

\* updateItem has just overwritten the value of a present key, the store
\* having a free slot
C20_Witness ==
    /\ last.op = "updateItem" /\ last.err = "none"
    /\ Present(set, last.key)
    /\ getItem(set, last.key) = MaxValue
    /\ Len(set.freeList) > 0

\* C21: getAllItems() holds exactly one entry for each present key, with
\* the value getItem gives for it, holds no entry for an absent key or a
\* hole, and is as long as size.
C21_AllItems ==
    LET items == getAllItems(set)
    IN /\ Len(items) = size(set)
       /\ \A k \in InRange :
              Present(set, k) =>
                  /\ Cardinality({i \in 1..Len(items) : items[i].itemId = k}) = 1
                  /\ \A i \in 1..Len(items) :
                         items[i].itemId = k => items[i].value = getItem(set, k)
       /\ \A i \in 1..Len(items) :
              items[i].itemId \in InRange /\ Present(set, items[i].itemId)

\* C22: after a removeItem the dense array is packed: the live entries
\* occupy exactly the slots 0 .. size-1.
C22_Packed ==
    (last.op = "removeItem" /\ last.was) =>
        /\ \A i \in 0..(Len(set.keys) - 1) :
               (ArrGet(set.keys, i) # ABSENT) <=> (i < size(set))
        /\ {set.sparse[k] : k \in {x \in InRange : Present(set, x)}}
               = 0..(size(set) - 1)

\* C23: clear() leaves the store as a freshly constructed store of the
\* same capacity: size 0, hasItem false for every key, empty free list,
\* and addItem of any key of the range succeeds afterwards.
C23_ClearResets ==
    last.op = "clear" =>
        /\ size(set) = 0
        /\ \A k \in InRange : hasItem(set, k) = [err |-> "none", ret |-> FALSE]
        /\ Len(set.freeList) = 0
        /\ \A k \in InRange, v \in Values :
               LET r == addItem(set, k, v, FALSE)
               IN r.err = "none" /\ getItem(r.s, k) = v /\ size(r.s) = 1

\* the (family, kind) pairs registered in c
Registered(c) ==
    {fk \in FamilyNames \X Kinds :
        familyRegistered(c, fk[1]) /\ kindRegistered(c, fk[1], fk[2])}

\* the capacity of a store: the length of its sparse array
Capacity(s) == Cardinality(DOMAIN s.sparse)

\* C24: every component store has the capacity maxEntities of the
\* registry, so addComponent succeeds for every live entity that does
\* not have the component yet.
C24_StoreCapacity ==
    pc = "idle" =>
        \A fk \in Registered(components) :
            /\ Capacity(components.store[fk]) = maxEntities
            /\ \A id \in LiveIds(entities), v \in Values :
                   ~Holds(components, fk, id) =>
                       addComponent(components, id, fk[1], fk[2], v).err = "none"

\* the registry after the explicit registration of whatever of f and k is
\* missing
ExplicitlyRegistered(c, f, k) ==
    LET c1 == IF familyRegistered(c, f) THEN c ELSE registerFamily(c, f).c
    IN IF kindRegistered(c1, f, k) THEN c1 ELSE registerComponent(c1, f, k).c

\* C25: addComponent never throws because the family or the kind is not
\* registered; it registers what is missing and stores the value, which
\* gives the state and the getComponent result of explicit registerFamily
\* and registerComponent followed by addComponent.
C25_AutoRegister ==
    pc = "idle" =>
        \A f \in FamilyNames, k \in Kinds :
            <<f, k>> \notin Registered(components) =>
                LET x == ExplicitlyRegistered(components, f, k)
                    cap == Capacity(x.store[<<f, k>>])
                IN /\ familyRegistered(x, f) /\ kindRegistered(x, f, k)
                   /\ \A id \in EcsIds, v \in Values :
                          LET a == addComponent(components, id, f, k, v)
                          IN /\ a = addComponent(x, id, f, k, v)
                             /\ a.err = IF id \in 0..(cap - 1) THEN "none" ELSE "InvalidID"
                             /\ (a.err = "none" /\ hasEntity(entities, id)) =>
                                    getComponent(entities, a.c, id, f, k) =
                                        [err |-> "none", ret |-> v]

\* the first component of a new registry has just been added to a live
\* entity: one createEntity, then one addComponent that had to register
\* the family and the kind
C25_Witness ==
    /\ pc = "idle" /\ calls = 2
    /\ last.op = "addComponent" /\ last.err = "none"
    /\ hasEntity(entities, last.id)
    /\ \E fk \in Registered(components) : Holds(components, fk, last.id)

\* C26: addComponent on a triple that holds a component throws and
\* leaves the value and every store as they were; after removeComponent
\* of the triple of a live entity the same addComponent succeeds.
C26_DuplicateComponent ==
    pc = "idle" =>
        \A id \in EcsIds, fk \in Registered(components), v \in Values :
            Holds(components, fk, id) =>
                /\ addComponent(components, id, fk[1], fk[2], v) =
                       [c |-> components, err |-> "AlreadyExists"]
                /\ hasEntity(entities, id) =>
                       LET r == removeComponent(entities, components, id, fk[1], fk[2])
                           a == addComponent(r.c, id, fk[1], fk[2], v)
                       IN /\ r.err = "none"
                          /\ a.err = "none"
                          /\ getComponent(entities, a.c, id, fk[1], fk[2]) =
                                 [err |-> "none", ret |-> v]

\* addComponent has just thrown on a live entity that holds the component
C26_Witness ==
    /\ pc = "idle"
    /\ last.op = "addComponent" /\ last.err = "AlreadyExists"
    /\ hasEntity(entities, last.id)
    /\ \E fk \in Registered(components) : Holds(components, fk, last.id)

\* C27: registerFamily throws on a registered name, registerComponent
\* throws when the family is absent or the kind is in it; in each failing
\* case the family map and the stores with their components stay as they
\* are.
C27_RegisterErrors ==
    pc = "idle" =>
        /\ \A f \in FamilyNames :
               familyRegistered(components, f) =>
                   registerFamily(components, f) =
                       [c |-> components, err |-> "FamilyAlreadyRegistered"]
        /\ \A f \in FamilyNames, k \in Kinds :
               /\ ~familyRegistered(components, f) =>
                      registerComponent(components, f, k) =
                          [c |-> components, err |-> "FamilyNotRegistered"]
               /\ (familyRegistered(components, f) /\ kindRegistered(components, f, k)) =>
                      registerComponent(components, f, k) =
                          [c |-> components, err |-> "ComponentAlreadyRegistered"]

\* a registration has just been refused while a store holds a component
C27_Witness ==
    /\ pc = "idle"
    /\ last.op \in {"registerFamily", "registerComponent"}
    /\ last.err \in {"FamilyAlreadyRegistered", "ComponentAlreadyRegistered"}
    /\ \E fk \in Registered(components), id \in EcsIds : Holds(components, fk, id)

C29_RemoveComponent ==
    pc = "idle" =>
        \A id \in EcsIds, f \in FamilyNames, k \in Kinds :
            LET r == removeComponent(entities, components, id, f, k)
            IN IF ~hasEntity(entities, id)
               THEN r = [c |-> components, err |-> "none"]
               ELSE IF ~familyRegistered(components, f)
               THEN r = [c |-> components, err |-> "FamilyNotRegistered"]
               ELSE IF ~kindRegistered(components, f, k)
               THEN r = [c |-> components, err |-> "ComponentNotRegistered"]
               ELSE /\ r.err = "none"
                    /\ ~Holds(r.c, <<f, k>>, id)
                    /\ ~Holds(components, <<f, k>>, id) => r.c = components
                    /\ \A o \in FamilyNames \X Kinds :
                           o # <<f, k>> => r.c.store[o] = components.store[o]

\* removeComponent has just returned for an id that is not alive while
\* no family is registered
C29_Witness ==
    /\ pc = "idle"
    /\ last.op = "removeComponent" /\ last.err = "none"
    /\ ~hasEntity(entities, last.id)
    /\ Len(components.fams) = 0
    /\ LiveIds(entities) # {}

\* removeComponent has just thrown for a live entity
C29_WitnessRaise ==
    /\ pc = "idle"
    /\ last.op = "removeComponent"
    /\ last.err \in {"FamilyNotRegistered", "ComponentNotRegistered"}
    /\ hasEntity(entities, last.id)

\* C30: for a registered (family, kind) and any integer id, an absent
\* entity or component makes none of removeEntity, removeComponent,
\* getComponent and hasComponent throw: the removals change nothing,
\* getComponent returns undefined and hasComponent false.
C30_AbsenceNeverRaises ==
    pc = "idle" =>
        /\ (last.op = "removeEntity" /\ ~last.wasLive) => last.err = "none"
        /\ \A fk \in Registered(components), id \in EcsIds :
               ~Holds(components, fk, id) =>
                   /\ removeComponent(entities, components, id, fk[1], fk[2]) =
                          [c |-> components, err |-> "none"]
                   /\ getComponent(entities, components, id, fk[1], fk[2]) =
                          [err |-> "none", ret |-> UNDEF]
                   /\ hasComponent(components, id, fk[1], fk[2]) =
                          [err |-> "none", ret |-> FALSE]

\* ------------------------------------------------------------ C33 .. C39
\* the keys k in [0, N) for which hasItem(k) answers true
PresentKeys(s) == {k \in DOMAIN s.sparse : hasItem(s, k).ret}

\* C33: in every reachable state of the store, size (itemCount) is the
\* number of keys k in [0, N) for which hasItem(k) is true, and
\* 0 <= size <= N
C33_SizeCountsKeys ==
    /\ size(set) = Cardinality(PresentKeys(set))
    /\ 0 <= size(set)
    /\ size(set) <= Capacity(set)

\* C33, the case: a present key has just been removed from a store that
\* held three, and two remain
C33_Witness ==
    /\ last.op = "removeItem"
    /\ last.was
    /\ size(set) = 2
    /\ Cardinality(PresentKeys(set)) = 2

\* C34: in every reachable state of the store the free list holds no slot
\* twice and no slot that holds a live key (keys[s] is -1 for every s in
\* freeList), so that addItem never hands out a slot another present key
\* points to
C34_FreeListSound ==
    /\ NoDup(set.freeList)
    /\ \A s \in Range(set.freeList) : ArrGet(set.keys, s) = ABSENT
    /\ \A k \in InRange, v \in Values :
          LET r == addItem(set, k, v, FALSE)
          IN r.err = "none" =>
                \A j \in PresentKeys(set) : set.sparse[j] # r.ret

\* C35: between two calls of the ECS, every key present in a component
\* store is a live entity: no store has an entry for an id that was never
\* created or has been removed
C35_ComponentsOfLiveOnly ==
    pc = "idle" =>
        \A fk \in FamilyNames \X Kinds, id \in EcsIds :
            Holds(components, fk, id) => hasEntity(entities, id)

\* the ECS whose callers add components to live entities only
AddComponentToLive(id, f, k, v) ==
    /\ hasEntity(entities, id)
    /\ AddComponent(id, f, k, v)

NextEcsLive ==
    \/ \E mask \in {UNDEF} : EcsCreateEntity(mask)
    \/ \E id \in EcsIds : EcsRemoveEntity(id)
    \/ EcsStrip
    \/ EcsDelete
    \/ \E f \in FamilyNames : RegisterFamily(f)
    \/ \E f \in FamilyNames, k \in Kinds : RegisterComponent(f, k)
    \/ \E id \in EcsIds, f \in FamilyNames, k \in Kinds, v \in Values :
           AddComponentToLive(id, f, k, v)
    \/ \E id \in EcsIds, f \in FamilyNames, k \in Kinds :
           RemoveComponent(id, f, k)

SpecEcsLive == InitEcs /\ [][NextEcsLive]_vars

\* C36: when components are only added to entities alive at the time of
\* the call, the id createEntity has just returned, fresh or recycled,
\* has no component: for every registered (family, kind) hasComponent
\* returns false and getComponent returns undefined
C36_StartsEmpty ==
    Created =>
        \A fk \in Registered(components) :
            /\ hasComponent(components, last.ret, fk[1], fk[2]) =
                   [err |-> "none", ret |-> FALSE]
            /\ getComponent(entities, components, last.ret, fk[1], fk[2]) =
                   [err |-> "none", ret |-> UNDEF]

\* C36 for the ids that lie within the capacity of the component stores
C36_WithinStoreCapacity ==
    (Created /\ last.ret < DefaultCapacity) =>
        \A fk \in Registered(components) :
            /\ hasComponent(components, last.ret, fk[1], fk[2]) =
                   [err |-> "none", ret |-> FALSE]
            /\ getComponent(entities, components, last.ret, fk[1], fk[2]) =
                   [err |-> "none", ret |-> UNDEF]

\* an id has been recycled: the entity removed before this createEntity
\* held a component and createEntity returned its id again
C36_Recycled ==
    /\ Created
    /\ calls = 4
    /\ last.ret = 0
    /\ Registered(components) # {}

\* ------------------------------- the EntitySparseSet with clear() and stats
\* the largest activeCount at which clear() is still called
MaxActive == 1

\* EntitySparseSet.clear(): sparse and keys are filled with -1, the free
\* list and nextItemId start again; bitSet and activeCount are left as
\* they are
clearEntities(e) ==
    [e EXCEPT !.sparse = [i \in DOMAIN e.sparse |-> ABSENT],
              !.keys = [j \in 1..Len(e.keys) |-> ABSENT],
              !.freeList = << >>,
              !.nextItemId = 0]

\* EntitySparseSet.getStats(), without the two arrays it hands out
getStats(e) ==
    [capacity       |-> Cardinality(DOMAIN e.sparse),
     size           |-> e.activeCount,
     used           |-> Cardinality({i \in DOMAIN e.sparse : e.sparse[i] # ABSENT}),
     freeListLenght |-> Len(e.freeList)]

\* ECS.getStats() of an ECS whose registry is e
EcsGetStats(m, e) ==
    [maxEntities |-> m, currentEntities |-> getStats(e).used]

ClearEntities ==
    /\ entities.activeCount <= MaxActive
    /\ entities' = clearEntities(entities)
    /\ eref' = [out |-> {}, free |-> << >>, ever |-> {}]
    /\ last' = [op |-> "clear", err |-> "none"]
    /\ UNCHANGED <<set, ref, sref, ecsVars>>

NextEntClear ==
    \/ NextEntMask
    \/ ClearEntities

SpecEntClear == InitEntMask /\ [][NextEntClear]_vars

\* C32: in every reachable state the entity counters agree with the set
\* of live entities: getStats().size (activeCount), getStats().used and
\* the currentEntities of ECS.getStats() all equal the number of ids for
\* which hasEntity is true, and none exceeds the maxEntities the registry
\* was built with
C32_CountersAgree ==
    LET n == Cardinality(LiveIds(entities))
        st == getStats(entities)
        ecs == EcsGetStats(st.capacity, entities)
    IN /\ st.size = n
       /\ st.used = n
       /\ ecs.currentEntities = n
       /\ st.size <= ecs.maxEntities
       /\ st.used <= ecs.maxEntities
       /\ ecs.currentEntities <= ecs.maxEntities

\* C37: in every state reachable through createEntity, deleteEntity,
\* addMaskToEntity, removeMaskFromEntity, updateMask and clear, every id
\* that is not alive has mask 0, so getAllByMask and getFirstByMaks with a
\* non-zero mask never return an id for which hasEntity is false
C37_DeadHaveNoMask ==
    /\ \A id \in DOMAIN entities.sparse :
          ~hasEntity(entities, id) => getMask(entities, id) = MaskNone
    /\ \A m \in Masks \ {MaskNone} :
          /\ \A id \in Range(getAllByMask(entities, m)) : hasEntity(entities, id)
          /\ getFirstByMaks(entities, m) # NULL =>
                 hasEntity(entities, getFirstByMaks(entities, m))

\* ------------------------------------------------- the systems of the ECS
\* the system objects handed to addSystem and removeSystem
MaxSystems == 2
SystemIds == 1..MaxSystems
\* the longest list of systems explored
MaxListLen == 3
\* the deltaTime values handed to updateSystems
MaxDelta == 2
Deltas == 1..MaxDelta

\* addSystem that puts the system at the head of the list (unshift)
addSystem_Unshift(sys, systemCallback) == <<systemCallback>> \o sys

\* addSystem(systemCallback)
addSystem(sys, systemCallback) == Append(sys, systemCallback)

\* this.systems.indexOf(systemCallback): the first index, -1 when absent
indexOf(sys, systemCallback) ==
    IF systemCallback \in Range(sys)
    THEN (CHOOSE i \in 1..Len(sys) :
              /\ sys[i] = systemCallback
              /\ \A j \in 1..(i - 1) : sys[j] # systemCallback) - 1
    ELSE -1

\* removeSystem(systemCallback)
removeSystem(sys, systemCallback) ==
    LET index == indexOf(sys, systemCallback)
    IN IF index # -1
       THEN SubSeq(sys, 1, index) \o SubSeq(sys, index + 2, Len(sys))
       ELSE sys

\* the for-of loop of updateSystems and disposeSystems from position i on:
\* the calls made, in order, and whether one of them threw; the systems of
\* throwing are those whose method throws, which ends the loop
RECURSIVE forOf(_, _, _, _, _)
forOf(sys, i, method, arg, throwing) ==
    IF i > Len(sys) THEN [calls |-> << >>, err |-> "none"]
    ELSE LET call == [system |-> sys[i], method |-> method, arg |-> arg]
         IN IF sys[i] \in throwing
            THEN [calls |-> <<call>>, err |-> "thrown"]
            ELSE LET rest == forOf(sys, i + 1, method, arg, throwing)
                 IN [calls |-> <<call>> \o rest.calls, err |-> rest.err]

\* updateSystems(deltaTime)
updateSystems(sys, deltaTime, throwing) ==
    forOf(sys, 1, "update", deltaTime, throwing)

\* disposeSystems()
disposeSystems(sys, throwing) == forOf(sys, 1, "dispose", UNDEF, throwing)

\* new ECS(): the systems, nothing else of the ECS being used
InitSys ==
    /\ set = NewSparseSet(0)
    /\ ref = << >>
    /\ sref = NoSlots
    /\ entities = NewEntitySparseSet(0)
    /\ eref = [out |-> {}, free |-> << >>, ever |-> {}]
    /\ NoEcs
    /\ last = NoCall

sysFrame == <<set, ref, sref, entities, eref, maxEntities, cached, now,
              components, pc, todo, calls>>

AddSystem(s) ==
    /\ Len(systems) < MaxListLen
    /\ systems' = addSystem(systems, s)
    /\ last' = [op |-> "addSystem", system |-> s, err |-> "none"]
    /\ UNCHANGED <<log, sysFrame>>

RemoveSystem(s) ==
    /\ systems' = removeSystem(systems, s)
    /\ last' = [op |-> "removeSystem", system |-> s, err |-> "none"]
    /\ UNCHANGED <<log, sysFrame>>

UpdateSystems(deltaTime, throwing) ==
    LET r == updateSystems(systems, deltaTime, throwing)
    IN /\ log' = r.calls
       /\ last' = [op |-> "updateSystems", system |-> UNDEF, err |-> r.err]
       /\ UNCHANGED <<systems, sysFrame>>

DisposeSystems(throwing) ==
    LET r == disposeSystems(systems, throwing)
    IN /\ log' = r.calls
       /\ last' = [op |-> "disposeSystems", system |-> UNDEF, err |-> r.err]
       /\ UNCHANGED <<systems, sysFrame>>

NextSys ==
    \/ \E s \in SystemIds : AddSystem(s)
    \/ \E s \in SystemIds : RemoveSystem(s)
    \/ \E dt \in Deltas, throwing \in SUBSET SystemIds :
           UpdateSystems(dt, throwing)
    \/ \E throwing \in SUBSET SystemIds : DisposeSystems(throwing)

SpecSys == InitSys /\ [][NextSys]_vars

\* the calls of method with arg on each system of sys, once, in list order
EachInOrder(sys, method, arg) ==
    [i \in 1..Len(sys) |-> [system |-> sys[i], method |-> method, arg |-> arg]]

\* q is p with one occurrence of x taken out, the rest in the same order
OneRemoved(p, q, x) ==
    \E i \in 1..Len(p) :
        /\ p[i] = x
        /\ q = SubSeq(p, 1, i - 1) \o SubSeq(p, i + 1, Len(p))

\* C31: updateSystems(dt) calls update(dt) once on each system of the list
\* in list order and disposeSystems calls dispose() in the same order (a
\* system whose method throws ends the traversal after its own call);
\* addSystem appends at the end, removeSystem takes one occurrence out and
\* leaves the order of the others, so list order is order of addition
C31_SystemsInOrder ==
    /\ \A dt \in Deltas :
          updateSystems(systems, dt, {}) =
              [calls |-> EachInOrder(systems, "update", dt), err |-> "none"]
    /\ disposeSystems(systems, {}) =
          [calls |-> EachInOrder(systems, "dispose", UNDEF), err |-> "none"]
    /\ \A dt \in Deltas, throwing \in SUBSET SystemIds :
          LET r == updateSystems(systems, dt, throwing)
              all == EachInOrder(systems, "update", dt)
          IN /\ r.calls = SubSeq(all, 1, Len(r.calls))
             /\ \A i \in 1..(Len(r.calls) - 1) : systems[i] \notin throwing
             /\ r.err = "none" <=> Range(systems) \cap throwing = {}
    /\ \A s \in SystemIds :
          /\ addSystem(systems, s) = systems \o <<s>>
          /\ IF s \in Range(systems)
             THEN OneRemoved(systems, removeSystem(systems, s), s)
             ELSE removeSystem(systems, s) = systems
    /\ (last.op \in {"updateSystems", "disposeSystems"} /\ last.err = "none")
          => Len(log) = Len(systems) /\ \A i \in 1..Len(log) : log[i].system = systems[i]

\* C31, the case: a traversal has just called update on a list of three
\* systems in which one system occurs twice, around the other
C31_Witness ==
    /\ last.op = "updateSystems"
    /\ last.err = "none"
    /\ Len(systems) = 3
    /\ systems[1] # systems[2]
    /\ systems[1] = systems[3]
    /\ Len(log) = 3

\* ------------------------------------------------------------ Mouse2DSystem
\* EntityTypeMask.Mouse and EntityTypeMask.Canvas
Mouse == 1
Canvas == 2

\* !x of JavaScript, for the values an entity id can take
Falsy(x) == x = NULL \/ x = UNDEF \/ x = 0

\* ECS.getFirstEntityByMask(mask)
getFirstEntityByMask(e, mask) == getFirstByMaks(e, mask)

\* Mouse2DSystem.update(): the error it throws, "none" when it returns
Mouse2DSystem_update(e) ==
    LET mouseEntityId == getFirstEntityByMask(e, Mouse)
    IN IF Falsy(mouseEntityId) THEN [err |-> "NoMouseEntity"]
       ELSE [err |-> "none"]

\* Mouse2DSystem.updatePosition(event), the mousemove handler: the error
\* thrown and the component stores afterwards; the position found is
\* written in place with the coordinates of the event
updatePosition(e, c, clientX) ==
    LET mouseEntityId == getFirstEntityByMask(e, Mouse)
    IN IF Falsy(mouseEntityId) THEN [c |-> c, err |-> "NoMouseEntity"]
       ELSE LET position == getComponent(e, c, mouseEntityId, "Transform", 1)
            IN IF position.err # "none" THEN [c |-> c, err |-> position.err]
               ELSE IF position.ret = UNDEF THEN [c |-> c, err |-> "none"]
               ELSE [c |-> [c EXCEPT !.store[<<"Transform", 1>>] =
                                updateItem(c.store[<<"Transform", 1>>],
                                           mouseEntityId, clientX).s],
                     err |-> "none"]

MouseUpdate ==
    /\ CanCall
    /\ last' = [op |-> "update", err |-> Mouse2DSystem_update(entities).err,
                found |-> getFirstEntityByMask(entities, Mouse)]
    /\ UNCHANGED <<set, ref, sref, entities, eref, maxEntities, systems, log, cached, now, components, pc, todo>>

MouseMove(clientX) ==
    /\ CanCall
    /\ LET r == updatePosition(entities, components, clientX)
       IN /\ components' = r.c
          /\ last' = [op |-> "mousemove", err |-> r.err,
                      found |-> getFirstEntityByMask(entities, Mouse)]
    /\ UNCHANGED <<set, ref, sref, entities, eref, maxEntities, systems, log, cached, now, pc, todo>>

\* the ECS with entities of the Mouse and Canvas types and a Mouse2DSystem
NextMouse ==
    \/ \E mask \in {UNDEF, Mouse, Canvas} : EcsCreateEntity(mask)
    \/ \E id \in EcsIds : EcsRemoveEntity(id)
    \/ EcsStrip
    \/ EcsDelete
    \/ \E id \in EcsIds, v \in Values : AddComponent(id, "Transform", 1, v)
    \/ MouseUpdate
    \/ \E clientX \in Values : MouseMove(clientX)

SpecMouse == InitEcs /\ [][NextMouse]_vars

\* the live entities whose mask has the Mouse bit
MouseEntities(e) ==
    {id \in LiveIds(e) : BitAnd(getMask(e, id), Mouse) = Mouse}

\* C38: update and the mousemove handler throw 'No entity with Mouse mask
\* found' only when no live entity carries the Mouse mask; whenever
\* getFirstEntityByMask(Mouse) finds an entity, whatever its id, id 0
\* included, that error is not raised
C38_MouseFound ==
    pc = "idle" =>
        LET upd == Mouse2DSystem_update(entities)
            found == getFirstEntityByMask(entities, Mouse)
        IN /\ upd.err = "NoMouseEntity" => MouseEntities(entities) = {}
           /\ found # NULL => upd.err = "none"
           /\ \A clientX \in Values :
                  LET mv == updatePosition(entities, components, clientX)
                  IN /\ mv.err = "NoMouseEntity" => MouseEntities(entities) = {}
                     /\ found # NULL => mv.err # "NoMouseEntity"

\* --------------------------- the draft EntitySparseSet with a query cache
\* capacity of the draft registry
DraftCap == 2
\* calls made on the draft registry
DraftCalls == 4
\* the latest time explored, in milliseconds
MaxNow == 16
\* a cache entry is served while it is younger than this many milliseconds
CacheTtl == 16
\* the keys of a mask record (GlobalFamilyType)
DraftFamilies == {"Core", "Type"}
\* the mask arguments: for each family the bit 1 or undefined (key absent)
MaskArgs == [DraftFamilies -> {UNDEF, 1}]
\* entity ids handed to the calls, the last one out of range
DraftIds == 0..DraftCap
\* the id lists handed to addMaskToEntities
IdLists == {<<a, b>> : a \in DraftIds, b \in DraftIds}

NoEntry == [has |-> FALSE, result |-> << >>, timestamp |-> 0]

\* new EntitySparseSet(maxEntities) of the draft, its queryCache empty
NewDraft(n) ==
    [sparse      |-> [i \in 0..(n - 1) |-> ABSENT],
     keys        |-> [i \in 1..n |-> ABSENT],
     freeList    |-> << >>,
     bitSet      |-> [i \in 1..n |-> [f \in DraftFamilies |-> 0]],
     nextItemId  |-> 0,
     activeCount |-> 0,
     queryCache  |-> [k \in MaskArgs |-> NoEntry]]

\* this.queryCache.size
cacheSize(d) == Cardinality({k \in MaskArgs : d.queryCache[k].has})

\* clearQueryCache()
clearQueryCache(d) == [d EXCEPT !.queryCache = [k \in MaskArgs |-> NoEntry]]

\* if (this.queryCache.size > 0) this.clearQueryCache()
invalidate(d) == IF cacheSize(d) > 0 THEN clearQueryCache(d) ELSE d

\* get isFull() of the draft
draftIsFull(d) ==
    d.nextItemId >= Cardinality(DOMAIN d.sparse) /\ Len(d.freeList) = 0

\* entityExist(entityId)
entityExist(d, entityId) ==
    entityId >= 0 /\ entityId < Cardinality(DOMAIN d.sparse)
        /\ d.sparse[entityId] # ABSENT

\* createEntity() of the draft
draftCreateEntity(d) ==
    IF draftIsFull(d) THEN [d |-> d, err |-> "Full", ret |-> UNDEF]
    ELSE
      LET reuse == Len(d.freeList) > 0
          entityId == IF reuse THEN Last(d.freeList) ELSE d.nextItemId
          denseIndex == d.activeCount
      IN [d |-> [d EXCEPT
                   !.freeList = IF reuse THEN Front(d.freeList) ELSE d.freeList,
                   !.nextItemId = IF reuse THEN d.nextItemId ELSE d.nextItemId + 1,
                   !.sparse = TaSet(d.sparse, entityId, denseIndex),
                   !.keys = ArrSet(d.keys, denseIndex, entityId),
                   !.activeCount = d.activeCount + 1],
          err |-> "none", ret |-> entityId]

\* the loop of createEntities(count): a createEntity that throws ends it
RECURSIVE createLoop(_, _)
createLoop(d, count) ==
    IF count <= 0 THEN [d |-> d, err |-> "none"]
    ELSE LET r == draftCreateEntity(d)
         IN IF r.err # "none" THEN [d |-> r.d, err |-> r.err]
            ELSE createLoop(r.d, count - 1)

\* createEntities(count)
createEntities(d, count) ==
    LET r == createLoop(d, count)
    IN IF r.err # "none" THEN r
       ELSE [d |-> invalidate(r.d), err |-> "none"]

\* deleteEntity(entityId) of the draft
draftDeleteEntity(d, entityId) ==
    IF ~entityExist(d, entityId) THEN [d |-> d, err |-> "NotExist"]
    ELSE
      LET denseIndex == d.sparse[entityId]
          lastDenseIndex == d.activeCount - 1
          swap == denseIndex # lastDenseIndex
          lastEntityId == ArrGet(d.keys, lastDenseIndex)
          keys1 == IF swap THEN ArrSet(d.keys, denseIndex, lastEntityId)
                   ELSE d.keys
          sparse1 == IF swap THEN TaSet(d.sparse, lastEntityId, denseIndex)
                     ELSE d.sparse
          d1 == [d EXCEPT
                   !.keys = keys1,
                   !.sparse = TaSet(sparse1, entityId, ABSENT),
                   !.bitSet = ArrSet(d.bitSet, entityId,
                                     [f \in DraftFamilies |-> 0]),
                   !.freeList = Append(d.freeList, entityId),
                   !.activeCount = d.activeCount - 1]
      IN [d |-> invalidate(d1), err |-> "none"]

\* the loop `bitSet[entityId][key] |= mask[key]` over the keys of mask
orMask(entityMasks, mask) ==
    [f \in DraftFamilies |->
        IF mask[f] # UNDEF THEN BitOr(entityMasks[f], mask[f])
        ELSE entityMasks[f]]

\* the loop `bitSet[entityId][key] &= ~masks[key]` over the keys of masks
andNotMask(entityMasks, masks) ==
    [f \in DraftFamilies |->
        IF masks[f] # UNDEF THEN BitAndNot(entityMasks[f], masks[f])
        ELSE entityMasks[f]]

\* addMaskToEntity(entityId, mask) of the draft
draftAddMaskToEntity(d, entityId, mask) ==
    IF ~entityExist(d, entityId) THEN [d |-> d, err |-> "NotExist"]
    ELSE [d |-> invalidate([d EXCEPT !.bitSet =
                   ArrSet(d.bitSet, entityId,
                          orMask(ArrGet(d.bitSet, entityId), mask))]),
          err |-> "none"]

\* addMaskToEntities(entityIds, mask), from position j of entityIds on
RECURSIVE addMaskToEntities(_, _, _, _)
addMaskToEntities(d, entityIds, mask, j) ==
    IF j > Len(entityIds) THEN d
    ELSE LET entityId == entityIds[j]
             d1 == IF entityExist(d, entityId)
                   THEN [d EXCEPT !.bitSet =
                           ArrSet(d.bitSet, entityId,
                                  orMask(ArrGet(d.bitSet, entityId), mask))]
                   ELSE d
         IN addMaskToEntities(d1, entityIds, mask, j + 1)

\* removeMaskFromEntity(entityId, masks) of the draft
draftRemoveMaskFromEntity(d, entityId, masks) ==
    IF ~entityExist(d, entityId) THEN [d |-> d, err |-> "NotExist"]
    ELSE [d |-> [d EXCEPT !.bitSet =
                   ArrSet(d.bitSet, entityId,
                          andNotMask(ArrGet(d.bitSet, entityId), masks))],
          err |-> "none"]

\* the test of the scan of getAllByMask on the entity at dense index i:
\* every key asked for has all its bits in the mask of the entity
allMatch(d, i, masks) ==
    LET entityMasks == ArrGet(d.bitSet, ArrGet(d.keys, i))
    IN \A f \in DraftFamilies :
          masks[f] # UNDEF => BitAnd(entityMasks[f], masks[f]) = masks[f]

\* the scan of getAllByMask over the active entities, without maxResults
scanByMask(d, masks) ==
    LET ids == [j \in 1..d.activeCount |-> ArrGet(d.keys, j - 1)]
        hit == [j \in 1..d.activeCount |-> allMatch(d, j - 1, masks)]
    IN [k \in 1..Cardinality({j \in 1..d.activeCount : hit[j]}) |->
           ids[CHOOSE j \in 1..d.activeCount :
                  /\ hit[j]
                  /\ Cardinality({x \in 1..j : hit[x]}) = k]]

\* getAllByMask(masks, undefined, useCache) of the draft at time t: the
\* list returned and the registry afterwards (the cache entry it stores)
draftGetAllByMask(d, masks, useCache, t) ==
    LET entry == d.queryCache[masks]
    IN IF useCache /\ entry.has /\ t - entry.timestamp < CacheTtl
       THEN [d |-> d, ret |-> entry.result]
       ELSE LET result == scanByMask(d, masks)
            IN [d |-> IF useCache
                      THEN [d EXCEPT !.queryCache[masks] =
                              [has |-> TRUE, result |-> result, timestamp |-> t]]
                      ELSE d,
                ret |-> result]

InitDraft ==
    /\ set = NewSparseSet(0)
    /\ ref = << >>
    /\ sref = NoSlots
    /\ entities = NewEntitySparseSet(0)
    /\ eref = [out |-> {}, free |-> << >>, ever |-> {}]
    /\ maxEntities = 0
    /\ systems = << >>
    /\ log = << >>
    /\ components = NewComponents
    /\ pc = "idle"
    /\ todo = << >>
    /\ calls = 0
    /\ cached = NewDraft(DraftCap)
    /\ now = 0
    /\ last = NoCall

draftFrame == <<set, ref, sref, entities, eref, maxEntities, systems, log,
                components, pc, todo>>

\* one more call on the draft registry, at the current time
DraftCall ==
    /\ calls < DraftCalls
    /\ calls' = calls + 1
    /\ UNCHANGED <<now, draftFrame>>

DraftCreateEntity ==
    /\ DraftCall
    /\ LET r == draftCreateEntity(cached)
       IN /\ cached' = r.d
          /\ last' = [op |-> "createEntity", err |-> r.err]

DraftCreateEntities(count) ==
    /\ DraftCall
    /\ LET r == createEntities(cached, count)
       IN /\ cached' = r.d
          /\ last' = [op |-> "createEntities", err |-> r.err]

DraftDeleteEntity(id) ==
    /\ DraftCall
    /\ LET r == draftDeleteEntity(cached, id)
       IN /\ cached' = r.d
          /\ last' = [op |-> "deleteEntity", err |-> r.err]

DraftAddMaskToEntity(id, mask) ==
    /\ DraftCall
    /\ LET r == draftAddMaskToEntity(cached, id, mask)
       IN /\ cached' = r.d
          /\ last' = [op |-> "addMaskToEntity", err |-> r.err]

DraftAddMaskToEntities(ids, mask) ==
    /\ DraftCall
    /\ cached' = addMaskToEntities(cached, ids, mask, 1)
    /\ last' = [op |-> "addMaskToEntities", err |-> "none"]

DraftRemoveMaskFromEntity(id, masks) ==
    /\ DraftCall
    /\ LET r == draftRemoveMaskFromEntity(cached, id, masks)
       IN /\ cached' = r.d
          /\ last' = [op |-> "removeMaskFromEntity", err |-> r.err]

DraftGetAllByMask(masks, useCache) ==
    /\ DraftCall
    /\ cached' = draftGetAllByMask(cached, masks, useCache, now).d
    /\ last' = [op |-> "getAllByMask", err |-> "none"]

\* time passes: half a frame or a whole one
Tick(ms) ==
    /\ now + ms <= MaxNow
    /\ now' = now + ms
    /\ UNCHANGED <<cached, calls, last, draftFrame>>

NextDraft ==
    \/ DraftCreateEntity
    \/ \E count \in 0..DraftCap : DraftCreateEntities(count)
    \/ \E id \in DraftIds : DraftDeleteEntity(id)
    \/ \E id \in DraftIds, mask \in MaskArgs : DraftAddMaskToEntity(id, mask)
    \/ \E ids \in IdLists, mask \in MaskArgs : DraftAddMaskToEntities(ids, mask)
    \/ \E id \in DraftIds, masks \in MaskArgs :
           DraftRemoveMaskFromEntity(id, masks)
    \/ \E masks \in MaskArgs, useCache \in BOOLEAN :
           DraftGetAllByMask(masks, useCache)
    \/ \E ms \in {8, 16} : Tick(ms)

SpecDraft == InitDraft /\ [][NextDraft]_vars

\* C39: a getAllByMask(masks, undefined, true) of the draft never returns
\* a stale list: in every reachable state, so after any createEntity,
\* createEntities, deleteEntity, addMaskToEntity, addMaskToEntities or
\* removeMaskFromEntity, the cached query returns the list the uncached
\* query returns
C39_CacheFresh ==
    \A masks \in MaskArgs :
        draftGetAllByMask(cached, masks, TRUE, now).ret =
            draftGetAllByMask(cached, masks, FALSE, now).ret

\* the mask argument {Type: 1}
TypeOnly == [f \in DraftFamilies |-> IF f = "Type" THEN 1 ELSE UNDEF]

\* the cached query for {Type: 1} is stale right after a successful
\* removeMaskFromEntity
C39_StaleAfterRemoveMask ==
    /\ last.op = "removeMaskFromEntity"
    /\ last.err = "none"
    /\ draftGetAllByMask(cached, TypeOnly, TRUE, now).ret = <<0>>
    /\ draftGetAllByMask(cached, TypeOnly, FALSE, now).ret = << >>

\* the cached query for {Type: 1} is stale right after addMaskToEntities
C39_StaleAfterAddMasks ==
    /\ last.op = "addMaskToEntities"
    /\ draftGetAllByMask(cached, TypeOnly, TRUE, now).ret = << >>
    /\ draftGetAllByMask(cached, TypeOnly, FALSE, now).ret = <<0>>
====
